---- MODULE Spec2Model ----
(***************************************************************************)
(* serious_django_graphene: the failable-mutation result protocol.         *)
(*                                                                         *)
(*   Spec        FailableMutation.mutate, the dispatch wrapper around a    *)
(*               user supplied do_mutate.                                  *)
(*   SpecForm    FormMutation.mutate, the form-backed mutation.            *)
(*   SpecFields  fields_for_form, the form argument deriver.               *)
(*                                                                         *)
(* Python values are records tagged by `type`; a field name always holds   *)
(* values of one TLA+ type.                                                *)
(***************************************************************************)
EXTENDS Integers, Sequences, FiniteSets, TLC

VARIABLES
    meta,             \* cls._meta of the declared mutation type
    has_do_mutate,    \* hasattr(cls, 'do_mutate')
    mutate_calls,     \* number of FailableMutation.mutate calls made
    do_mutate_calls,  \* number of times the user body do_mutate has run
    call,             \* the last FailableMutation.mutate call: inputs, body, outcome
    overrides_perform,\* the FormMutation subclass overrides perform_mutate
    form_calls,       \* number of FormMutation.mutate calls made
    perform_calls,    \* number of times perform_mutate has run
    fcall,            \* the last FormMutation.mutate call
    derived           \* the last fields_for_form call

vars == <<meta, has_do_mutate, mutate_calls, do_mutate_calls, call,
          overrides_perform, form_calls, perform_calls, fcall, derived>>

(***************************************************************************)
(* Bounds of the model.                                                    *)
(***************************************************************************)
MaxCalls == 2     \* calls of a mutate method in one behaviour
MaxAllow == 2     \* length of a declared caught_exceptions list
MaxArgs == 2      \* number of arguments an exception is constructed with
MaxErrs == 2      \* entries of an error mapping
MaxMsgs == 1      \* messages of a ValidationError that carries no mapping
MaxClean == 1     \* add_error calls of a form's clean() hook
MaxFields == 3    \* fields of a form

(***************************************************************************)
(* Python values.                                                          *)
(***************************************************************************)
PyNone == [type |-> "NoneType"]
PyBool(b) == [type |-> "bool", b |-> b]
PyInt(n) == [type |-> "int", n |-> n]
PyStr(s) == [type |-> "str", s |-> s]
PyList(xs) == [type |-> "list", items |-> xs]
\* an attribute that is not there (access raises AttributeError), or a
\* keyword argument that was not passed
Absent == [type |-> "<absent>"]

Returned(v) == [kind |-> "returned", value |-> v]
Raised(e) == [kind |-> "raised", exc |-> e]
NoOutcome == [kind |-> "none"]

\* all sequences over S of length at most n
SeqsUpTo(S, n) == UNION {[1..k -> S] : k \in 0..n}

Range(s) == {s[i] : i \in 1..Len(s)}

Distinct(s) == \A i, j \in 1..Len(s) : i # j => s[i] # s[j]

(***************************************************************************)
(* Exceptions: a class (kind), the constructor arguments, and for a Django *)
(* ValidationError the errors it carries.                                  *)
(***************************************************************************)
NoPayload == [form |-> "none"]
Exc(kind, args) == [kind |-> kind, args |-> args, payload |-> NoPayload]

\* the base class of each exception class (single inheritance)
Parent(k) ==
    CASE k = "BaseException" -> "object"
      [] k = "Exception" -> "BaseException"
      [] k = "SomeException" -> "BaseException"
      [] k = "ValueError" -> "Exception"
      [] k = "AttributeError" -> "Exception"
      [] k = "RuntimeError" -> "Exception"
      [] k = "NotImplementedError" -> "RuntimeError"
      [] k = "DoesNotExist" -> "Exception"
      [] k = "ImproperlyConfigured" -> "Exception"
      [] k = "DjangoValidationError" -> "Exception"
      [] k = "CustomValidationError" -> "DjangoValidationError"
      [] k = "MutationExecutionException" -> "Exception"
      [] OTHER -> "object"

RECURSIVE issubclass(_, _)
issubclass(k, base) ==
    IF k = base THEN TRUE
    ELSE IF k = "object" THEN FALSE
    ELSE issubclass(Parent(k), base)

isinstance(e, base) == issubclass(e.kind, base)

\* `except exceptions as e` with a tuple of classes
ExceptCatchesAll(e, exceptions) == TRUE
ExceptMatches(e, exceptions) ==
    \E i \in 1..Len(exceptions) : isinstance(e, exceptions[i])

\* repr of a tuple of str, as str(e) gives it for several arguments
RECURSIVE ReprItems(_)
ReprItems(args) ==
    IF Len(args) = 0 THEN ""
    ELSE IF Len(args) = 1 THEN "'" \o args[1] \o "'"
    ELSE "'" \o args[1] \o "', " \o ReprItems(Tail(args))

\* str(e) of an exception that does not override __str__
StrFirstArg(e) == IF Len(e.args) = 0 THEN "" ELSE e.args[1]
Str(e) ==
    IF Len(e.args) = 0 THEN ""
    ELSE IF Len(e.args) = 1 THEN e.args[1]
    ELSE "(" \o ReprItems(e.args) \o ")"

(***************************************************************************)
(* The result types.                                                       *)
(***************************************************************************)
ValidationError(field, messages) ==
    [type |-> "ValidationError", field |-> field, messages |-> messages]
ValidationErrors(validation_errors) ==
    [type |-> "ValidationErrors", validation_errors |-> validation_errors]
ExecutionError(error_message) ==
    [type |-> "ExecutionError", error_message |-> error_message]

\* cls(**kw): a graphene object type instance; a field that is not passed is None
OrNone(v) == IF v = Absent THEN PyNone ELSE v
Cls(kw) ==
    [type |-> "Mutation", success |-> OrNone(kw.success), error |-> OrNone(kw.error),
     some_result |-> OrNone(kw.some_result)]
\* a plain object carrying exactly the attributes passed
PlainObject(kw) ==
    [type |-> "object", success |-> kw.success, error |-> kw.error,
     some_result |-> kw.some_result]

Kw(success, error) == [success |-> success, error |-> error, some_result |-> Absent]

hasattr(obj, name) ==
    /\ obj.type \in {"Mutation", "object"}
    /\ CASE name = "success" -> obj.success # Absent
         [] name = "error" -> obj.error # Absent
         [] OTHER -> FALSE

(***************************************************************************)
(* create_validation_error_output                                          *)
(***************************************************************************)
\* iter(validation_error): (field, messages) pairs when the exception carries
\* an error dict, otherwise the messages of its error list, each a str
ValidationErrorIter(e) ==
    IF e.payload.form = "dict"
    THEN [i \in 1..Len(e.payload.entries) |->
            [type |-> "tuple", field |-> e.payload.entries[i].field,
             messages |-> e.payload.entries[i].messages]]
    ELSE [i \in 1..Len(e.payload.messages) |->
            [type |-> "str", s |-> e.payload.messages[i]]]

\* `key, value = element`
Unpack2(el) ==
    IF el.type = "tuple"
    THEN [kind |-> "ok", key |-> el.field, value |-> PyList(el.messages)]
    ELSE IF Len(el.s) = 2
    THEN [kind |-> "ok", key |-> SubSeq(el.s, 1, 1), value |-> PyStr(SubSeq(el.s, 2, 2))]
    ELSE IF Len(el.s) < 2
    THEN Raised(Exc("ValueError", <<"not enough values to unpack">>))
    ELSE Raised(Exc("ValueError", <<"too many values to unpack (expected 2)">>))

RECURSIVE BuildValidationErrors(_, _)
BuildValidationErrors(elements, acc) ==
    IF elements = <<>> THEN Returned(ValidationErrors(acc))
    ELSE LET u == Unpack2(Head(elements))
         IN  IF u.kind = "raised" THEN u
             ELSE BuildValidationErrors(Tail(elements),
                                        Append(acc, ValidationError(u.key, u.value)))

create_validation_error_output(validation_error) ==
    BuildValidationErrors(ValidationErrorIter(validation_error), <<>>)

(***************************************************************************)
(* FailableMutation                                                        *)
(***************************************************************************)
\* FailableMutation.__init_subclass_with_meta__(caught_exceptions=...)
FailableMutation_init_subclass_with_meta(raw) ==
    LET or_empty == IF raw.form = "None" \/ Len(raw.items) = 0
                    THEN [form |-> "tuple", items |-> <<>>]
                    ELSE raw
        as_tuple == IF or_empty.form = "list"
                    THEN [form |-> "tuple", items |-> or_empty.items]
                    ELSE or_empty
    IN  [caught_exceptions |-> as_tuple]

NotCalled == [called |-> FALSE]
Received(info, args, kwargs) ==
    [called |-> TRUE, info |-> info, args |-> args, kwargs |-> kwargs]

\* what running the user body once gives
RunBody(body) ==
    IF body.do = "raise" THEN Raised(body.exc)
    ELSE IF body.ctor = "cls" THEN Returned(Cls(body.kw))
    ELSE IF body.ctor = "object" THEN Returned(PlainObject(body.kw))
    ELSE Returned(PyNone)

\* the try/except of FailableMutation.mutate around one run of the body
HandleBodyResult(r, exceptions) ==
    IF r.kind = "returned" THEN r
    ELSE IF isinstance(r.exc, "DjangoValidationError")
    THEN LET o == create_validation_error_output(r.exc)
         IN  IF o.kind = "raised" THEN o
             ELSE Returned(Cls(Kw(PyBool(FALSE), o.value)))
    ELSE IF ExceptMatches(r.exc, exceptions)
    THEN Returned(Cls(Kw(PyBool(FALSE), ExecutionError(Str(r.exc)))))
    ELSE r

NotImplementedNoDoMutate ==
    Exc("NotImplementedError",
        <<"Default implementation of FailableMutation.mutate depends on do_mutate method being defined">>)

\* FailableMutation.mutate(cls, info, *args, **kwargs): the outcome, what the
\* body was called with, and how often it ran
MutateSkipsCheck(has_body, m, info, args, kwargs, body) ==
    IF ~has_body
    THEN [outcome |-> Raised(Exc("AttributeError", <<"type object has no attribute 'do_mutate'">>)),
          received |-> NotCalled, runs |-> 0]
    ELSE [outcome |-> HandleBodyResult(RunBody(body), m.caught_exceptions.items),
          received |-> Received(info, args, kwargs), runs |-> 1]
MutateRetries(has_body, m, info, args, kwargs, body) ==
    IF ~has_body
    THEN [outcome |-> Raised(NotImplementedNoDoMutate), received |-> NotCalled, runs |-> 0]
    ELSE [outcome |-> HandleBodyResult(RunBody(body), m.caught_exceptions.items),
          received |-> Received(info, args, kwargs),
          runs |-> IF body.do = "raise" THEN 2 ELSE 1]
FailableMutation_mutate(has_body, m, info, args, kwargs, body) ==
    IF ~has_body
    THEN [outcome |-> Raised(NotImplementedNoDoMutate), received |-> NotCalled, runs |-> 0]
    ELSE LET exceptions == m.caught_exceptions.items
         IN  [outcome |-> HandleBodyResult(RunBody(body), exceptions),
              received |-> Received(info, args, kwargs), runs |-> 1]

(***************************************************************************)
(* Inputs.                                                                 *)
(***************************************************************************)
AllowKinds == {"Exception", "SomeException", "DjangoValidationError"}
RawCaughtExceptions ==
    {[form |-> "None", items |-> <<>>]}
    \cup {[form |-> f, items |-> xs] :
            f \in {"list", "tuple"}, xs \in {ys \in SeqsUpTo(AllowKinds, MaxAllow) : Distinct(ys)}}

ValidationKinds == {"DjangoValidationError", "CustomValidationError"}
ArgStrings == {"oh no!", "nice"}
Messages == {"required", "no"}
FieldNames == {"name", "email"}
MessageLists == {<<"required">>}

ErrorDicts ==
    {[i \in 1..Len(p[1]) |-> [field |-> p[1][i], messages |-> p[2][i]]] :
        p \in {q \in SeqsUpTo(FieldNames, MaxErrs) \X SeqsUpTo(MessageLists, MaxErrs) :
                  Len(q[1]) = Len(q[2]) /\ Distinct(q[1])}}

Payloads ==
    {[form |-> "dict", entries |-> d] : d \in ErrorDicts}
    \cup {[form |-> "list", messages |-> ms] : ms \in SeqsUpTo(Messages, MaxMsgs)}

\* exceptions of the given classes constructed from the given strings, and
\* validation errors with the given payloads
ExceptionsOf(kinds, strings, payloads) ==
    {Exc(k, a) : k \in kinds, a \in SeqsUpTo(strings, MaxArgs)}
    \cup {[kind |-> k, args |-> <<>>, payload |-> p] : k \in ValidationKinds, p \in payloads}

NoExc == Exc("object", <<>>)
NoKw == Kw(Absent, Absent)
Kwargs ==
    {[success |-> s, error |-> e, some_result |-> PyInt(42)] :
        s \in {Absent, PyNone, PyBool(TRUE), PyBool(FALSE)},
        e \in {Absent, PyNone, ExecutionError("x")}}

\* what a user body may do when it runs: raise, or return an instance of the
\* mutation type, some other object, or None
BodiesRaising(exceptions) ==
    {[do |-> "raise", ctor |-> "", kw |-> NoKw, exc |-> e] : e \in exceptions}
    \cup {[do |-> "return", ctor |-> c, kw |-> kw, exc |-> NoExc] :
            c \in {"cls", "object"}, kw \in Kwargs}
    \cup {[do |-> "return", ctor |-> "None", kw |-> NoKw, exc |-> NoExc]}

DoMutateBodies == BodiesRaising(ExceptionsOf({"SomeException", "ValueError"}, ArgStrings, Payloads))
NoBody == [do |-> "none", ctor |-> "", kw |-> NoKw, exc |-> NoExc]

Infos == {"info"}
\* the (*args, **kwargs) of a call
CallArguments ==
    {[args |-> <<>>, kwargs |-> <<>>],
     [args |-> <<69>>, kwargs |-> <<[name |-> "value", v |-> 100]>>]}

NoCall ==
    [info |-> "", args |-> <<>>, kwargs |-> <<>>,
     body |-> NoBody,
     received |-> NotCalled, outcome |-> NoOutcome]

(***************************************************************************)
(* FormMutation                                                            *)
(***************************************************************************)
\* the declared fields of the mutation's form_class, in declaration order
FormFields == <<"name", "email">>
NON_FIELD_ERRORS == "__all__"
\* the primary keys the model's default manager finds
StoredPks == {1}

\* what a form's own validation rules do with one input: the fields whose
\* field-level validation fails, and the add_error calls of its clean() hook
\* (a field name, or NON_FIELD_ERRORS for an error of the whole form)
Validations ==
    [failing : SUBSET Range(FormFields),
     clean : SeqsUpTo(Range(FormFields) \cup {NON_FIELD_ERRORS}, MaxClean)]

IndexOfKey(errors, key) ==
    IF \E i \in 1..Len(errors) : errors[i].field = key
    THEN CHOOSE i \in 1..Len(errors) : errors[i].field = key
    ELSE 0

\* form.add_error(key, message): appends to the key's messages, a new key
\* goes last in the mapping
add_error(errors, key, message) ==
    LET i == IndexOfKey(errors, key)
    IN  IF i = 0 THEN Append(errors, [field |-> key, messages |-> <<message>>])
        ELSE [errors EXCEPT ![i].messages = Append(@, message)]

RECURSIVE CleanFields(_, _, _)
CleanFields(fields, failing, errors) ==
    IF fields = <<>> THEN errors
    ELSE CleanFields(Tail(fields), failing,
                     IF Head(fields) \in failing
                     THEN add_error(errors, Head(fields), "required")
                     ELSE errors)

RECURSIVE CleanForm(_, _)
CleanForm(clean, errors) ==
    IF clean = <<>> THEN errors
    ELSE CleanForm(Tail(clean), add_error(errors, Head(clean), "mismatch"))

\* form.errors after full_clean(): the field errors in declaration order,
\* then what clean() added
FormErrors(v) == CleanForm(v.clean, CleanFields(FormFields, v.failing, <<>>))

is_valid(form) == form.errors = <<>>

\* FormMutation.get_form_kwargs and get_form: `id` is popped from the input
\* and, when truthy, looked up
get_form(input, v) ==
    LET pk == IF input.has_id THEN input.id ELSE 0
    IN  IF pk # 0 /\ pk \notin StoredPks
        THEN Raised(Exc("DoesNotExist", <<"matching query does not exist.">>))
        ELSE Returned([type |-> "Form", data |-> input.data,
                       instance |-> IF pk # 0 THEN PyInt(pk) ELSE PyNone,
                       errors |-> FormErrors(v)])

NotImplementedPerform ==
    Exc("NotImplementedError", <<"perform_mutate needs to be overridden in the subclass!">>)

\* the `success` defaulting of FormMutation.mutate on perform_mutate's result
DefaultSuccess(result) ==
    IF hasattr(result, "success") THEN Returned(result)
    ELSE IF ~hasattr(result, "error")
    THEN Raised(Exc("AttributeError", <<"object has no attribute 'error'">>))
    ELSE Returned([result EXCEPT !.success = PyBool(result.error = PyNone)])

\* the try/except of FormMutation.mutate around perform_mutate
HandlePerformResult(r) ==
    IF r.kind = "returned" THEN DefaultSuccess(r.value)
    ELSE IF isinstance(r.exc, "MutationExecutionException")
    THEN Returned(Cls(Kw(PyBool(FALSE), ExecutionError(Str(r.exc)))))
    ELSE r

\* the validation_errors list built from form.errors.items()
FormValidationErrors(errors) ==
    [i \in 1..Len(errors) |-> ValidationError(errors[i].field, PyList(errors[i].messages))]

NoForm == [type |-> "NoneType"]
NotPerformed == [called |-> FALSE]
Performed(form, info) == [called |-> TRUE, form |-> form, info |-> info]

\* FormMutation.mutate(cls, root, info, **input)
FormMutatePerformsAnyway(overrides, info, input, v, body) ==
    LET f == get_form(input, v)
    IN  IF f.kind = "raised"
        THEN [outcome |-> f, form |-> NoForm, received |-> NotPerformed, runs |-> 0]
        ELSE [outcome |-> IF is_valid(f.value)
                          THEN HandlePerformResult(IF overrides THEN RunBody(body)
                                                   ELSE Raised(NotImplementedPerform))
                          ELSE Returned(Cls(Kw(PyBool(FALSE),
                                   ValidationErrors(FormValidationErrors(f.value.errors))))),
              form |-> f.value, received |-> Performed(f.value, info), runs |-> 1]
FormMutation_mutate(overrides, info, input, v, body) ==
    LET f == get_form(input, v)
    IN  IF f.kind = "raised"
        THEN [outcome |-> f, form |-> NoForm, received |-> NotPerformed, runs |-> 0]
        ELSE LET form == f.value
             IN  IF is_valid(form)
                 THEN [outcome |-> HandlePerformResult(IF overrides THEN RunBody(body)
                                                       ELSE Raised(NotImplementedPerform)),
                       form |-> form, received |-> Performed(form, info), runs |-> 1]
                 ELSE [outcome |-> Returned(Cls(Kw(PyBool(FALSE),
                                       ValidationErrors(FormValidationErrors(form.errors))))),
                       form |-> form, received |-> NotPerformed, runs |-> 0]

PerformBodies ==
    BodiesRaising(ExceptionsOf({"SomeException", "MutationExecutionException"}, {"oh no!"},
                               {[form |-> "dict", entries |-> <<[field |-> "name", messages |-> <<"required">>]>>],
                                [form |-> "list", messages |-> <<"required">>]}))

\* the caught_exceptions options of the form mutation types declared
FormRawCaughtExceptions ==
    {[form |-> "None", items |-> <<>>],
     [form |-> "list", items |-> <<"SomeException">>],
     [form |-> "list", items |-> <<"DjangoValidationError", "SomeException">>]}

FormInputs ==
    {[has_id |-> FALSE, id |-> 0, data |-> "ada"]}
    \cup {[has_id |-> TRUE, id |-> i, data |-> "ada"] : i \in {1, 2}}

NoValidation == [failing |-> {}, clean |-> <<>>]
NoFormCall ==
    [info |-> "", input |-> [has_id |-> FALSE, id |-> 0, data |-> ""],
     validation |-> NoValidation, body |-> NoBody,
     form |-> NoForm, received |-> NotPerformed, outcome |-> NoOutcome]

(***************************************************************************)
(* fields_for_form                                                         *)
(***************************************************************************)
\* the form fields a form class may declare, by name
FormFieldNames == {"a", "b", "c", "d"}
FormFieldDef(name) ==
    CASE name = "a" -> [kind |-> "CharField", required |-> TRUE]
      [] name = "b" -> [kind |-> "IntegerField", required |-> FALSE]
      [] name = "c" -> [kind |-> "CharField", required |-> FALSE]
      [] OTHER -> [kind |-> "Field", required |-> TRUE]

\* convert_form_field: the argument type of a form field; a field class with
\* no registered conversion is a configuration error
convert_form_field(field) ==
    CASE field.kind = "CharField" ->
            Returned([type |-> "String", required |-> field.required])
      [] field.kind = "IntegerField" ->
            Returned([type |-> "Int", required |-> field.required])
      [] OTHER ->
            Raised(Exc("ImproperlyConfigured", <<"Don't know how to convert the Django form field">>))

RECURSIVE FieldsLoopOnlyUnchecked(_, _, _, _)
FieldsLoopOnlyUnchecked(names, only_fields, exclude_fields, fields) ==
    IF names = <<>> THEN Returned([type |-> "OrderedDict", entries |-> fields])
    ELSE LET name == Head(names)
             is_not_in_only == name \notin only_fields
             is_excluded == name \in exclude_fields
         IN  IF is_not_in_only \/ is_excluded
             THEN FieldsLoopOnlyUnchecked(Tail(names), only_fields, exclude_fields, fields)
             ELSE LET c == convert_form_field(FormFieldDef(name))
                  IN  IF c.kind = "raised" THEN c
                      ELSE FieldsLoopOnlyUnchecked(Tail(names), only_fields, exclude_fields,
                               Append(fields, [name |-> name, argument |-> c.value]))

\* the loop of fields_for_form over form.fields.items(), `fields` being the
\* ordered dict built so far
RECURSIVE FieldsLoop(_, _, _, _)
FieldsLoop(names, only_fields, exclude_fields, fields) ==
    IF names = <<>> THEN Returned([type |-> "OrderedDict", entries |-> fields])
    ELSE LET name == Head(names)
             is_not_in_only == only_fields # {} /\ name \notin only_fields
             is_excluded == name \in exclude_fields
         IN  IF is_not_in_only \/ is_excluded
             THEN FieldsLoop(Tail(names), only_fields, exclude_fields, fields)
             ELSE LET c == convert_form_field(FormFieldDef(name))
                  IN  IF c.kind = "raised" THEN c
                      ELSE FieldsLoop(Tail(names), only_fields, exclude_fields,
                               Append(fields, [name |-> name, argument |-> c.value]))

fields_for_form_only_unchecked(form_fields, only_fields, exclude_fields) ==
    FieldsLoopOnlyUnchecked(form_fields, only_fields, exclude_fields, <<>>)
fields_for_form(form_fields, only_fields, exclude_fields) ==
    FieldsLoop(form_fields, only_fields, exclude_fields, <<>>)

\* FormMutation.__init_subclass_with_meta__(form_class, only_fields, exclude_fields)
FormMutation_init_subclass_with_meta(has_form_class, form_fields, only_fields, exclude_fields) ==
    IF ~has_form_class
    THEN Raised(Exc("Exception", <<"form_class is required for FormMutation">>))
    ELSE fields_for_form(form_fields, only_fields, exclude_fields)

FormDeclarations ==
    {fs \in SeqsUpTo(FormFieldNames, MaxFields) : Distinct(fs)}

NoDeclaration ==
    [kind |-> "none", has_form_class |-> FALSE, form_fields |-> <<>>,
     only_fields |-> {}, exclude_fields |-> {}, outcome |-> NoOutcome]

(***************************************************************************)
(* The specifications. Each runs one part of the package and leaves the   *)
(* state of the other parts idle.                                          *)
(***************************************************************************)
IdleMutate ==
    /\ has_do_mutate = FALSE
    /\ mutate_calls = 0
    /\ do_mutate_calls = 0
    /\ call = NoCall

IdleForm ==
    /\ overrides_perform = FALSE
    /\ form_calls = 0
    /\ perform_calls = 0
    /\ fcall = NoFormCall

IdleFields == derived = NoDeclaration

\* Spec: calls of FailableMutation.mutate on one declared mutation type
Init ==
    /\ meta \in {FailableMutation_init_subclass_with_meta(raw) : raw \in RawCaughtExceptions}
    /\ has_do_mutate \in BOOLEAN
    /\ mutate_calls = 0
    /\ do_mutate_calls = 0
    /\ call = NoCall
    /\ IdleForm
    /\ IdleFields

Mutate ==
    /\ mutate_calls < MaxCalls
    /\ \E info \in Infos, a \in CallArguments,
          body \in IF has_do_mutate THEN DoMutateBodies ELSE {NoBody} :
        LET res == FailableMutation_mutate(has_do_mutate, meta, info, a.args, a.kwargs, body)
        IN  /\ call' = [info |-> info, args |-> a.args, kwargs |-> a.kwargs, body |-> body,
                        received |-> res.received, outcome |-> res.outcome]
            /\ do_mutate_calls' = do_mutate_calls + res.runs
    /\ mutate_calls' = mutate_calls + 1
    /\ UNCHANGED <<meta, has_do_mutate, overrides_perform, form_calls, perform_calls,
                   fcall, derived>>

Next == Mutate

Spec == Init /\ [][Next]_vars

\* SpecForm: calls of FormMutation.mutate on one declared form mutation type
InitForm ==
    /\ meta \in {FailableMutation_init_subclass_with_meta(raw) : raw \in FormRawCaughtExceptions}
    /\ overrides_perform \in BOOLEAN
    /\ form_calls = 0
    /\ perform_calls = 0
    /\ fcall = NoFormCall
    /\ IdleMutate
    /\ IdleFields

\* a call whose form validates runs the body; the body is not an input of
\* a call whose form does not, nor the validation of one whose form is not built
FormMutate ==
    /\ form_calls < MaxCalls
    /\ \E info \in Infos, input \in FormInputs :
        \E v \in IF get_form(input, NoValidation).kind = "returned"
                 THEN Validations ELSE {NoValidation} :
        \E body \in IF overrides_perform /\ FormErrors(v) = <<>> /\ get_form(input, v).kind = "returned"
                    THEN PerformBodies ELSE {NoBody} :
          LET res == FormMutation_mutate(overrides_perform, info, input, v, body)
          IN  /\ fcall' = [info |-> info, input |-> input, validation |-> v, body |-> body,
                           form |-> res.form, received |-> res.received,
                           outcome |-> res.outcome]
              /\ perform_calls' = perform_calls + res.runs
    /\ form_calls' = form_calls + 1
    /\ UNCHANGED <<meta, has_do_mutate, mutate_calls, do_mutate_calls, call,
                   overrides_perform, derived>>

NextForm == FormMutate

SpecForm == InitForm /\ [][NextForm]_vars

\* SpecFields: the declaration of one FormMutation subclass
InitFields ==
    /\ derived \in [kind : {"declaring"}, has_form_class : BOOLEAN,
                    form_fields : FormDeclarations,
                    only_fields : SUBSET FormFieldNames,
                    exclude_fields : SUBSET FormFieldNames,
                    outcome : {NoOutcome}]
    /\ meta = FailableMutation_init_subclass_with_meta([form |-> "None", items |-> <<>>])
    /\ IdleMutate
    /\ IdleForm

\* the class statement of a FormMutation subclass runs
DeclareFormMutation ==
    /\ derived.kind = "declaring"
    /\ derived' = [derived EXCEPT
                     !.kind = "declared",
                     !.outcome = FormMutation_init_subclass_with_meta(
                                    derived.has_form_class, derived.form_fields,
                                    derived.only_fields, derived.exclude_fields)]
    /\ UNCHANGED <<meta, has_do_mutate, mutate_calls, do_mutate_calls, call,
                   overrides_perform, form_calls, perform_calls, fcall>>

NextFields == DeclareFormMutation

SpecFields == InitFields /\ [][NextFields]_vars

(***************************************************************************)
(* Properties of FailableMutation.mutate, checked under Spec.              *)
(***************************************************************************)
AllowList == Range(meta.caught_exceptions.items)
BodyRaised == call.body.do = "raise"
RaisedExc == call.body.exc
IsValidationKind(e) == issubclass(e.kind, "DjangoValidationError")
Failed(outcome, error) ==
    /\ outcome.kind = "returned"
    /\ outcome.value.type = "Mutation"
    /\ outcome.value.success = PyBool(FALSE)
    /\ outcome.value.error = error

\* C1: an exception raised by do_mutate whose class is in caught_exceptions,
\* and which is not a validation error, does not propagate: mutate returns
\* success=False with error=ExecutionError(error_message=str(exception)).
C1_AllowListedIsExecutionError ==
    (BodyRaised /\ RaisedExc.kind \in AllowList /\ ~IsValidationKind(RaisedExc))
    => /\ Failed(call.outcome, ExecutionError(Str(RaisedExc)))
       /\ RaisedExc.args = <<>> => call.outcome.value.error.error_message = ""
       /\ RaisedExc.args = <<"oh no!">> => call.outcome.value.error.error_message = "oh no!"
       /\ RaisedExc.args = <<"oh no!", "nice">>
            => call.outcome.value.error.error_message = "('oh no!', 'nice')"

C1_Witness ==
    /\ BodyRaised
    /\ RaisedExc.kind = "SomeException"
    /\ "SomeException" \in AllowList
    /\ RaisedExc.args = <<"oh no!", "nice">>
    /\ call.outcome.kind = "returned"
    /\ call.outcome.value.error.type = "ExecutionError"

\* C2 as stated: an exception raised by do_mutate whose class is neither a
\* member of caught_exceptions nor a validation error propagates unchanged.
C2_NotListedPropagates ==
    (BodyRaised /\ RaisedExc.kind \notin AllowList /\ ~IsValidationKind(RaisedExc))
    => call.outcome = Raised(RaisedExc)

\* C2 amended: an exception raised by do_mutate whose class is neither a
\* class of caught_exceptions nor a subclass of one, and which is not a
\* validation error, propagates unchanged (the same exception: same class,
\* same arguments); with caught_exceptions unset or empty that is every
\* exception that is not a validation error.
C2_UnmatchedPropagates ==
    /\ (BodyRaised /\ ~IsValidationKind(RaisedExc)
          /\ \A k \in AllowList : ~issubclass(RaisedExc.kind, k))
       => call.outcome = Raised(RaisedExc)
    /\ (BodyRaised /\ ~IsValidationKind(RaisedExc) /\ AllowList = {})
       => call.outcome = Raised(RaisedExc)

C2_Witness ==
    /\ BodyRaised
    /\ RaisedExc.kind = "ValueError"
    /\ AllowList = {"SomeException"}
    /\ call.outcome = Raised(RaisedExc)
    /\ RaisedExc.args = <<"nice">>

\* C3: every validation error raised by do_mutate, whatever it carries and
\* whether or not its class is in caught_exceptions, gives success=False with
\* error=ValidationErrors (one entry per entry of its error mapping, in the
\* mapping's order), never an ExecutionError and never an exception.
C3_ValidationIsValidationErrors ==
    (BodyRaised /\ IsValidationKind(RaisedExc))
    => /\ call.outcome.kind = "returned"
       /\ call.outcome.value.success = PyBool(FALSE)
       /\ call.outcome.value.error.type = "ValidationErrors"
       /\ RaisedExc.payload.form = "dict"
            => call.outcome.value.error.validation_errors =
                 [i \in 1..Len(RaisedExc.payload.entries) |->
                    ValidationError(RaisedExc.payload.entries[i].field,
                                    PyList(RaisedExc.payload.entries[i].messages))]

\* C4: when do_mutate returns an instance of the mutation type, the result
\* has success=True and error=None unless the body passed other values.
C4_SuccessDefaults ==
    (call.body.do = "return" /\ call.body.ctor = "cls")
    => /\ call.outcome.kind = "returned"
       /\ call.body.kw.success = Absent => call.outcome.value.success = PyBool(TRUE)
       /\ call.body.kw.error = Absent => call.outcome.value.error = PyNone

\* C5: on a mutation type without do_mutate every call of mutate raises
\* NotImplementedError; no body runs and nothing is returned.
C5_NoBodyNotImplemented ==
    (~has_do_mutate /\ mutate_calls > 0)
    => /\ call.outcome.kind = "raised"
       /\ call.outcome.exc.kind = "NotImplementedError"
       /\ call.received = NotCalled
       /\ do_mutate_calls = 0

C5_Witness ==
    /\ ~has_do_mutate
    /\ mutate_calls = MaxCalls
    /\ meta.caught_exceptions.items # <<>>
    /\ call.args = <<69>>
    /\ call.outcome.kind = "raised"

\* C10: on a mutation type with do_mutate, after n calls of mutate the body
\* has run n times (once per call, also when it raised), each time with the
\* info and arguments of the call; what the body returns is handed back as is.
C10_BodyRunsOncePerCall ==
    has_do_mutate
    => /\ do_mutate_calls = mutate_calls
       /\ mutate_calls > 0
            => /\ call.received = Received(call.info, call.args, call.kwargs)
               /\ call.body.do = "return" /\ call.body.ctor = "cls"
                    => call.outcome = Returned(Cls(call.body.kw))
               /\ call.body.do = "return" /\ call.body.ctor = "object"
                    => call.outcome = Returned(PlainObject(call.body.kw))
               /\ call.body.do = "return" /\ call.body.ctor = "None"
                    => call.outcome = Returned(PyNone)

C10_Witness ==
    /\ has_do_mutate
    /\ mutate_calls = 2
    /\ do_mutate_calls = 2
    /\ BodyRaised
    /\ call.outcome.kind = "returned"
    /\ call.received.called
    /\ call.received.args = <<69>>

(***************************************************************************)
(* Properties of FormMutation.mutate, checked under SpecForm.              *)
(***************************************************************************)
FormBuilt == fcall.form.type = "Form"
FormInvalid == FormBuilt /\ fcall.form.errors # <<>>
FormValid == FormBuilt /\ fcall.form.errors = <<>>
FormAllowList == Range(meta.caught_exceptions.items)
ErrorKeys(errors) == {errors[i].field : i \in 1..Len(errors)}
MessagesOf(errors, key) == errors[IndexOfKey(errors, key)].messages

\* the fields of the form that have errors, in declaration order
InvalidFields(form) ==
    SelectSeq(FormFields, LAMBDA f : f \in ErrorKeys(form.errors))

\* C6 as stated: a call whose form is not valid never runs perform_mutate and
\* returns success=False with error=ValidationErrors holding exactly one entry
\* per invalid field (its name and messages), in field-declaration order.
C6_OnePerInvalidFieldInDeclarationOrder ==
    FormInvalid
    => /\ fcall.received = NotPerformed
       /\ fcall.outcome.kind = "returned"
       /\ fcall.outcome.value.success = PyBool(FALSE)
       /\ fcall.outcome.value.error =
            ValidationErrors(
              [i \in 1..Len(InvalidFields(fcall.form)) |->
                 ValidationError(InvalidFields(fcall.form)[i],
                                 PyList(MessagesOf(fcall.form.errors,
                                                   InvalidFields(fcall.form)[i])))])

\* C6 amended: a call whose form is not valid never runs perform_mutate and
\* returns success=False with error=ValidationErrors holding exactly one entry
\* per entry of form.errors (its key and messages), in the order of that
\* mapping; that is one entry per invalid field in field-declaration order
\* when only field-level validation failed.
C6_OnePerErrorsEntryInMappingOrder ==
    FormInvalid
    => /\ fcall.received = NotPerformed
       /\ fcall.outcome.kind = "returned"
       /\ fcall.outcome.value.type = "Mutation"
       /\ fcall.outcome.value.success = PyBool(FALSE)
       /\ fcall.outcome.value.error.type = "ValidationErrors"
       /\ LET items == fcall.outcome.value.error.validation_errors
              errors == fcall.form.errors
          IN  /\ Len(items) = Len(errors)
              /\ \A i \in 1..Len(errors) :
                    /\ items[i].field = errors[i].field
                    /\ items[i].messages = PyList(errors[i].messages)
              /\ fcall.validation.clean = <<>>
                   => /\ Len(items) = Cardinality(fcall.validation.failing)
                      /\ [i \in 1..Len(items) |-> items[i].field] = InvalidFields(fcall.form)

C6_Witness ==
    /\ FormInvalid
    /\ fcall.outcome.kind = "returned"
    /\ Len(fcall.outcome.value.error.validation_errors) = 2
    /\ fcall.outcome.value.error.validation_errors[1].field = "email"
    /\ fcall.outcome.value.error.validation_errors[2].field = NON_FIELD_ERRORS
    /\ overrides_perform
    /\ perform_calls = 0

\* C7: a call whose form is valid and whose perform_mutate returns normally
\* runs perform_mutate once, with the validated form, and returns its value
\* unchanged, except that a value without a success attribute gets
\* success = (error is None).
C7_ReturnsPerformResult ==
    (FormValid /\ overrides_perform /\ fcall.body.do = "return" /\ fcall.body.ctor # "None")
    => /\ fcall.received = Performed(fcall.form, fcall.info)
       /\ LET v == RunBody(fcall.body).value
          IN  fcall.outcome =
                Returned(IF v.success = Absent
                         THEN [v EXCEPT !.success = PyBool(v.error \in {PyNone, Absent})]
                         ELSE v)

\* C9: in a call whose form is valid, perform_mutate runs inside the dispatch
\* of FailableMutation: a validation error it raises gives success=False with
\* error=ValidationErrors, and another exception whose class is in
\* caught_exceptions gives success=False with ExecutionError(str(exception)).
C9_PerformRunsInsideDispatch ==
    (FormValid /\ fcall.body.do = "raise")
    => /\ IsValidationKind(fcall.body.exc)
            => /\ fcall.outcome.kind = "returned"
               /\ fcall.outcome.value.success = PyBool(FALSE)
               /\ fcall.outcome.value.error.type = "ValidationErrors"
       /\ (~IsValidationKind(fcall.body.exc) /\ fcall.body.exc.kind \in FormAllowList)
            => Failed(fcall.outcome, ExecutionError(Str(fcall.body.exc)))

(***************************************************************************)
(* Properties of fields_for_form, checked under SpecFields.                *)
(***************************************************************************)
Declared == derived.kind = "declared" /\ derived.has_form_class
Skipped(name) ==
    \/ derived.only_fields # {} /\ name \notin derived.only_fields
    \/ name \in derived.exclude_fields
Position(seq, x) == CHOOSE i \in 1..Len(seq) : seq[i] = x

\* C8: fields_for_form returns exactly the fields of the form that are not
\* skipped, in the form's declared order; a field is skipped iff only_fields
\* is non-empty and does not hold its name, or exclude_fields holds its name.
C8_FieldsForFormFilter ==
    (Declared /\ derived.outcome.kind = "returned")
    => LET names == [i \in 1..Len(derived.outcome.value.entries) |->
                       derived.outcome.value.entries[i].name]
       IN  /\ Distinct(names)
           /\ Range(names) = {n \in Range(derived.form_fields) : ~Skipped(n)}
           /\ \A i, j \in 1..Len(names) :
                 i < j => Position(derived.form_fields, names[i])
                            < Position(derived.form_fields, names[j])
           /\ (derived.form_fields = <<"a", "b", "c">> /\ derived.only_fields = {"a", "c"}
                 /\ derived.exclude_fields = {})
                => names = <<"a", "c">>
           /\ (derived.form_fields = <<"a", "b", "c">> /\ derived.only_fields = {}
                 /\ derived.exclude_fields = {"b"})
                => names = <<"a", "c">>
           /\ (derived.form_fields = <<"a", "b", "c">> /\ derived.only_fields = {"a", "c"}
                 /\ derived.exclude_fields = {"c"})
                => names = <<"a">>

C8_Witness ==
    /\ Declared
    /\ derived.form_fields = <<"c", "a", "b">>
    /\ derived.only_fields = {}
    /\ derived.exclude_fields = {"a"}
    /\ derived.outcome.kind = "returned"
    /\ Len(derived.outcome.value.entries) = 2
    /\ derived.outcome.value.entries[1].name = "c"

====
